---- MODULE Spec2Model ----
(***************************************************************************)
(* SystemMPI easyblock (easybuild/easyblocks/generic/systemmpi.py).        *)
(*                                                                         *)
(* Python strings are modelled as sequences: easyconfig names and          *)
(* environment variable names as sequences of characters, every other      *)
(* text (command output, file contents, versions, paths) as sequences of   *)
(* tokens, where " " and "\n" are tokens of their own and a path is the    *)
(* sequence of its "/component" tokens.                                    *)
(***************************************************************************)
EXTENDS Integers, Sequences, FiniteSets, TLC

VARIABLES
    inp,              \* what the adapter finds around it: easyconfig, $PATH, files, os.environ, toolchain
    pc,               \* "new" (before __init__), "idle" (constructed), "failed" (__init__ raised)
    err,              \* the exception that left the last call, or NoErr
    branch,           \* the implementation branch __init__ took: "openmpi", "impi" or "none"
    cfg_version,      \* self.cfg['version']
    installdir,       \* self.installdir
    mpi_version,      \* self.mpi_version
    mpi_prefix,       \* self.mpi_prefix
    mpi_envvars,      \* self.mpi_envvars, as the sequence of (key, value) items in dict order
    mpi_c_compiler,   \* self.mpi_c_compiler
    c_compiler_version, \* self.c_compiler_version
    orig_version,     \* self.orig_version
    orig_installdir,  \* self.orig_installdir
    stack,            \* the active calls of make_module_step / make_module_extend_modpath
    last,             \* the call that finished last: its values on entry and on exit
    guard,            \* what the last make_module_step did before delegating
    req_guess,        \* the last result of make_module_req_guess
    extra             \* the last result of make_module_extra

vars == <<inp, pc, err, branch, cfg_version, installdir, mpi_version, mpi_prefix,
          mpi_envvars, mpi_c_compiler, c_compiler_version, orig_version,
          orig_installdir, stack, last, guard, req_guess, extra>>

-----------------------------------------------------------------------------
(* Bounds of the model *)

\* lines of the ompi_info output
MaxLines == 3
\* variables in the environment snapshot
MaxEnv == 2

-----------------------------------------------------------------------------
(* Strings *)

None == <<"<None>">>
SP == " "
NL == "\n"
\* what \s matches among the tokens
WS == {SP, NL}

Range(s) == {s[i] : i \in DOMAIN s}

startswith(s, p) == Len(s) >= Len(p) /\ SubSeq(s, 1, Len(p)) = p
endswith(s, p) == Len(s) >= Len(p) /\ SubSeq(s, Len(s) - Len(p) + 1, Len(s)) = p

LowerChar(c) ==
    CASE c = "I" -> "i" [] c = "M" -> "m" [] c = "P" -> "p" [] c = "O" -> "o"
      [] c = "C" -> "c" [] c = "H" -> "h"
      [] OTHER -> c
lower(s) == [i \in DOMAIN s |-> LowerChar(s[i])]

\* code points of the characters environment variable names are built from
Ord(c) ==
    CASE c = "A" -> 65 [] c = "C" -> 67 [] c = "E" -> 69 [] c = "F" -> 70
      [] c = "H" -> 72 [] c = "I" -> 73 [] c = "L" -> 76 [] c = "M" -> 77
      [] c = "O" -> 79 [] c = "P" -> 80 [] c = "R" -> 82 [] c = "T" -> 84
      [] c = "X" -> 88 [] c = "_" -> 95
      [] OTHER -> 0

\* Python's str < str: the first differing character decides, a proper prefix is smaller
RECURSIVE StrLess(_, _)
StrLess(a, b) ==
    IF b = <<>> THEN FALSE
    ELSE IF a = <<>> THEN TRUE
    ELSE IF Head(a) # Head(b) THEN Ord(Head(a)) < Ord(Head(b))
    ELSE StrLess(Tail(a), Tail(b))

\* os.path.dirname on a path of "/component" tokens
dirname(p) == IF Len(p) = 0 THEN p ELSE SubSeq(p, 1, Len(p) - 1)

Min(S) == CHOOSE m \in S : \A n \in S : m <= n
Max(S) == CHOOSE m \in S : \A n \in S : m >= n

\* index of the end of the line that position p lies on (position of the last token before NL)
LineEnd(txt, p) ==
    LET nls == {q \in p..Len(txt) : txt[q] = NL}
    IN  IF nls = {} THEN Len(txt) ELSE Min(nls) - 1

-----------------------------------------------------------------------------
(* Exceptions *)

NoErr == [kind |-> "none", msg |-> "", arg |-> <<>>]
EasyBuildError(m, a) == [kind |-> "EasyBuildError", msg |-> m, arg |-> a]
AttributeError == [kind |-> "AttributeError", msg |-> "'NoneType' object has no attribute 'group'", arg |-> <<>>]

-----------------------------------------------------------------------------
\* extract_ompi_setting: the regex ^\s+<pattern>: <group>$ under re.M, group being any run without newline

\* ^ under re.M: the start of the text and the position after every newline
LineStarts(txt) == {p \in 1..(Len(txt) + 1) : p = 1 \/ txt[p - 1] = NL}

\* first position at or after p that \s does not match
WsEnd(txt, p) ==
    LET non == {q \in p..Len(txt) : txt[q] \notin WS}
    IN  IF non = {} THEN Len(txt) + 1 ELSE Min(non)

\* the regex matches with its ^ at p: \s+ takes the whitespace run, then "pattern: "
OmpiMatchAt(pattern, txt, p) ==
    LET e == WsEnd(txt, p)
        lit == pattern \o <<":", SP>>
    IN  /\ e > p
        /\ e + Len(lit) - 1 <= Len(txt)
        /\ SubSeq(txt, e, e + Len(lit) - 1) = lit

\* group(1): the dot-star group runs to the end of the line
OmpiGroup(pattern, txt, p) ==
    LET v == WsEnd(txt, p) + Len(pattern) + 2
    IN  SubSeq(txt, v, LineEnd(txt, v))

\* [ok, value]: search() returns the leftmost match; no match raises EasyBuildError
extract_ompi_setting(pattern, txt) ==
    LET hits == {p \in LineStarts(txt) : OmpiMatchAt(pattern, txt, p)}
    IN  IF hits # {}
        THEN [ok |-> TRUE, value |-> OmpiGroup(pattern, txt, Min(hits)), err |-> NoErr]
        ELSE [ok |-> FALSE, value |-> None,
              err |-> EasyBuildError("Failed to extract OpenMPI setting", pattern)]

-----------------------------------------------------------------------------
\* Intel MPI version: lookbehind compilers_and_libraries_, a dot-star group, lookahead /linux/mpi

Marker == "compilers_and_libraries_"
LinuxMpi == "/linux/mpi"

\* the ends q the group can have when it starts at p: same line, "/linux/mpi" follows
ImpiEnds(txt, p) ==
    {q \in p..(LineEnd(txt, p) + 1) : q <= Len(txt) /\ txt[q] = LinuxMpi}

\* start positions of a match: right after the marker, with some end
ImpiStarts(txt) ==
    {p \in 2..(Len(txt) + 1) : txt[p - 1] = Marker /\ ImpiEnds(txt, p) # {}}

\* prefix_regex.search(contents): the match object's group(1), or None for no match
ImpiSearch(txt) ==
    IF ImpiStarts(txt) = {} THEN [matched |-> FALSE, group |-> None]
    ELSE LET p == Min(ImpiStarts(txt))
             q == Max(ImpiEnds(txt, p))
         IN  [matched |-> TRUE, group |-> SubSeq(txt, p, q - 1)]

-----------------------------------------------------------------------------
(* __init__ *)

OPENMPI == <<"o", "p", "e", "n", "m", "p", "i">>
IMPI == <<"i", "m", "p", "i">>
SYSTEM == <<"system">>

OMPI_ == <<"O", "M", "P", "I", "_">>
I_MPI_ == <<"I", "_", "M", "P", "I", "_">>
MPICH_ == <<"M", "P", "I", "C", "H", "_">>
MPI == <<"M", "P", "I">>
PROFILE == <<"P", "R", "O", "F", "I", "L", "E">>
I_MPI_ROOT == <<"I", "_", "M", "P", "I", "_", "R", "O", "O", "T">>

\* the wrapper looked up in $PATH
mpi_c_wrapper(mpi_name) == IF mpi_name = IMPI THEN "mpiicc" ELSE "mpicc"

\* the filter of the OpenMPI branch on an environment variable name
OmpiKeep(key) == startswith(key, OMPI_)

\* variant: the third family is filtered by its prefix alone
ImpiKeep_PrefixOnly(key) ==
    startswith(key, I_MPI_) \/ startswith(key, MPICH_) \/ startswith(key, MPI)

\* the three filters of the Intel MPI branch, whose results are merged by dict.update
ImpiKeep(key) ==
    \/ startswith(key, I_MPI_)
    \/ startswith(key, MPICH_)
    \/ (startswith(key, MPI) /\ endswith(key, PROFILE))

\* os.environ.get(name), None when unset
EnvGet(environ, name) == IF name \in DOMAIN environ THEN environ[name] ELSE None

\* Python truthiness of the result of os.environ.get
Truthy(v) == v # None /\ v # <<>>

\* compile_info.split(' ', 1)[0]
FirstWord(txt) ==
    LET sps == {q \in 1..Len(txt) : txt[q] = SP}
    IN  IF sps = {} THEN txt ELSE SubSeq(txt, 1, Min(sps) - 1)

\* variant: the sentinel is not recognised
VersionAccepted_NoSentinel(requested, derived) == requested = derived

\* the test on the requested version
VersionAccepted(requested, derived) == requested = SYSTEM \/ requested = derived

\* the value kept for restoring the version later
KeptVersion(requested, derived) == requested

Failed(e) ==
    [ok |-> FALSE, err |-> e, branch |-> "none", mpi_version |-> None, mpi_prefix |-> None,
     keys |-> {}, mpi_c_compiler |-> None]

Found(b, v, p, k, c) ==
    [ok |-> TRUE, err |-> NoErr, branch |-> b, mpi_version |-> v, mpi_prefix |-> p,
     keys |-> k, mpi_c_compiler |-> c]

\* the OpenMPI branch: version, prefix, environment variables, C compiler, in this order
DetectOpenMPI(i) ==
    LET ver == extract_ompi_setting(<<"Open", SP, "MPI">>, i.ompi_info)
        pre == extract_ompi_setting(<<"Prefix">>, i.ompi_info)
        cc == extract_ompi_setting(<<"C", SP, "compiler">>, i.ompi_info)
    IN  IF ~ver.ok THEN Failed(ver.err)
        ELSE IF ~pre.ok THEN Failed(pre.err)
        ELSE IF ~cc.ok THEN Failed(cc.err)
        ELSE Found("openmpi", ver.value, pre.value,
                   {k \in DOMAIN i.environ : OmpiKeep(k)}, cc.value)

\* the Intel MPI branch; .group(1) on a failed search is an AttributeError
DetectImpi(i, path_to_mpi_c_wrapper) ==
    LET m == ImpiSearch(i.mpiicc)
        root == EnvGet(i.environ, I_MPI_ROOT)
    IN  IF ~m.matched THEN Failed(AttributeError)
        ELSE IF m.group = None THEN Failed(EasyBuildError("No version found for system Intel MPI", <<>>))
        ELSE Found("impi", m.group,
                   IF Truthy(root) THEN root
                   ELSE dirname(dirname(dirname(path_to_mpi_c_wrapper))),
                   {k \in DOMAIN i.environ : ImpiKeep(k)},
                   FirstWord(i.compile_info))

\* wrapper lookup and the branch on the lower-cased name
Detect(i) ==
    LET mpi_name == lower(i.name)
        w == mpi_c_wrapper(mpi_name)
    IN  IF i.which[w] = None THEN Failed(EasyBuildError("not found in $PATH", <<w>>))
        ELSE IF mpi_name = OPENMPI THEN DetectOpenMPI(i)
        ELSE IF mpi_name = IMPI THEN DetectImpi(i, i.realpath[w])
        ELSE Failed(EasyBuildError("Unrecognised system MPI implementation", <<>>))

\* the checks after the branch: the prefix exists, the requested version is acceptable
Checked(i) ==
    LET d == Detect(i)
    IN  IF ~d.ok THEN d
        ELSE IF d.mpi_prefix \notin i.exists
             THEN Failed(EasyBuildError("Path derived for system MPI does not exist", d.mpi_prefix))
        ELSE IF ~VersionAccepted(i.version, d.mpi_version)
             THEN Failed(EasyBuildError("Specified version does not match version reported by MPI", i.version))
        ELSE d

\* the orders in which a dict with these keys can hold its items
ItemOrders(environ, keys) ==
    {s \in [1..Cardinality(keys) -> {<<k, environ[k]>> : k \in keys}] :
        \A a, b \in DOMAIN s : a # b => s[a] # s[b]}

Construct ==
    /\ pc = "new"
    /\ LET r == Checked(inp)
       IN  IF r.ok
           THEN /\ pc' = "idle"
                /\ err' = NoErr
                /\ branch' = r.branch
                /\ mpi_version' = r.mpi_version
                /\ mpi_prefix' = r.mpi_prefix
                /\ mpi_envvars' \in ItemOrders(inp.environ, r.keys)
                /\ mpi_c_compiler' = r.mpi_c_compiler
                /\ c_compiler_version' = inp.cc_version
                /\ orig_version' = KeptVersion(cfg_version, r.mpi_version)
                /\ orig_installdir' = installdir
           ELSE /\ pc' = "failed"
                /\ err' = r.err
                /\ UNCHANGED <<branch, mpi_version, mpi_prefix, mpi_envvars, mpi_c_compiler,
                               c_compiler_version, orig_version, orig_installdir>>
    /\ UNCHANGED <<inp, cfg_version, installdir, stack, last, guard, req_guess, extra>>

-----------------------------------------------------------------------------
(* Calls in progress and finished *)

NoCall == [op |-> "none", how |-> "none", pre_version |-> None, pre_installdir |-> None,
           post_version |-> None, post_installdir |-> None]
NoGuard == [seen |-> FALSE, delegated |-> FALSE, queried |-> FALSE, err |-> NoErr,
            pre_version |-> None, pre_installdir |-> None,
            post_version |-> None, post_installdir |-> None]

Frame(op) == [op |-> op, pre_version |-> cfg_version, pre_installdir |-> installdir]

Top == stack[Len(stack)]
Pop == SubSeq(stack, 1, Len(stack) - 1)

\* an exception is on its way up through the active calls
Unwinding == stack # <<>> /\ err.kind # "none"

\* the record of the call on top of the stack, leaving with the given values
Finished(how, v, d) ==
    [op |-> Top.op, how |-> how, pre_version |-> Top.pre_version,
     pre_installdir |-> Top.pre_installdir, post_version |-> v, post_installdir |-> d]

-----------------------------------------------------------------------------
(* make_module_req_guess *)

ImpiReqGuess ==
    {<<"PATH", <<"bin/intel64", "bin64">>>>,
     <<"LD_LIBRARY_PATH", <<"lib/em64t", "lib64">>>>,
     <<"LIBRARY_PATH", <<"lib/em64t", "lib64">>>>,
     <<"CPATH", <<"include64">>>>,
     <<"MIC_LD_LIBRARY_PATH", <<"mic/lib">>>>}

\* the result for an easyconfig name: the name is compared as it is written
make_module_req_guess(name) == IF name = IMPI THEN ImpiReqGuess ELSE {}

MakeModuleReqGuess ==
    /\ pc = "idle"
    /\ ~Unwinding
    /\ req_guess' = [called |-> TRUE, value |-> make_module_req_guess(inp.name)]
    /\ UNCHANGED <<inp, pc, err, branch, cfg_version, installdir, mpi_version, mpi_prefix,
                   mpi_envvars, mpi_c_compiler, c_compiler_version, orig_version,
                   orig_installdir, stack, last, guard, extra>>

-----------------------------------------------------------------------------
(* make_module_extra *)

\* sorted(): the items in ascending order; keys are unique, so the key decides
RECURSIVE SortedItems(_)
SortedItems(items) ==
    IF items = {} THEN <<>>
    ELSE LET m == CHOOSE a \in items : \A b \in items : a = b \/ StrLess(a[1], b[1])
         IN  <<m>> \o SortedItems(items \ {m})

\* variant: the items are visited in dict order
sorted_DictOrder(items) == items

\* the order in which the items are visited
sorted(items) == SortedItems(Range(items))

\* module_generator.set_environment(key, val)
set_environment(key, val) == <<"setenv", key, val>>

\* the text: what the generic generator gave, then one statement per item visited
make_module_extra(txt, items) ==
    txt \o [n \in DOMAIN sorted(items) |-> set_environment(sorted(items)[n][1], sorted(items)[n][2])]

MakeModuleExtra ==
    /\ pc = "idle"
    /\ ~Unwinding
    /\ extra' = [called |-> TRUE, txt |-> make_module_extra(inp.base_extra, mpi_envvars),
                 envvars_before |-> mpi_envvars]
    /\ UNCHANGED <<inp, pc, err, branch, cfg_version, installdir, mpi_version, mpi_prefix,
                   mpi_envvars, mpi_c_compiler, c_compiler_version, orig_version,
                   orig_installdir, stack, last, guard, req_guess>>

-----------------------------------------------------------------------------
(* make_module_step *)

DUMMYCC == <<"DUMMYCC">>
GCC == <<"gcc">>

\* the toolchain's compiler as the check sees it; get_software_version only off the dummy toolchain
ToolchainCompiler(i, faked_version) ==
    IF i.tc_cc = DUMMYCC
    THEN [name |-> GCC, version |-> faked_version, queried |-> FALSE]
    ELSE [name |-> i.tc_cc, version |-> i.tc_version, queried |-> TRUE]

\* variant: only the compiler names are compared
CompilersDiffer_NameOnly(mpi_cc, mpi_cc_version, tc_name, tc_version) == mpi_cc # tc_name

\* the condition under which make_module_step raises
CompilersDiffer(mpi_cc, mpi_cc_version, tc_name, tc_version) ==
    mpi_cc # tc_name \/ mpi_cc_version # tc_version

\* the values set while the generic module step runs
StepVersion == mpi_version
StepInstalldir == mpi_prefix
\* the values set after it
StepResetVersion == orig_version
StepResetInstalldir == orig_installdir

\* the call up to the delegation: the compiler check, then the substitution
MakeModuleStep ==
    /\ pc = "idle"
    /\ stack = <<>>
    /\ LET tc == ToolchainCompiler(inp, c_compiler_version)
       IN  IF CompilersDiffer(mpi_c_compiler, c_compiler_version, tc.name, tc.version)
           THEN /\ err' = EasyBuildError("C compiler for toolchain and underneath MPI do not match", tc.name)
                /\ guard' = [seen |-> TRUE, delegated |-> FALSE, queried |-> tc.queried, err |-> err',
                             pre_version |-> cfg_version, pre_installdir |-> installdir,
                             post_version |-> cfg_version, post_installdir |-> installdir]
                /\ last' = [op |-> "step", how |-> "raise",
                            pre_version |-> cfg_version, pre_installdir |-> installdir,
                            post_version |-> cfg_version, post_installdir |-> installdir]
                /\ UNCHANGED <<cfg_version, installdir, stack>>
           ELSE /\ err' = NoErr
                /\ guard' = [seen |-> TRUE, delegated |-> TRUE, queried |-> tc.queried, err |-> NoErr,
                             pre_version |-> cfg_version, pre_installdir |-> installdir,
                             post_version |-> StepVersion, post_installdir |-> StepInstalldir]
                /\ stack' = <<Frame("step")>>
                /\ cfg_version' = StepVersion
                /\ installdir' = StepInstalldir
                /\ UNCHANGED last
    /\ UNCHANGED <<inp, pc, branch, mpi_version, mpi_prefix, mpi_envvars, mpi_c_compiler,
                   c_compiler_version, orig_version, orig_installdir, req_guess, extra>>

\* the generic module step returns: both values are reset
GenericStepReturns ==
    /\ stack # <<>> /\ Top.op = "step"
    /\ ~Unwinding
    /\ installdir' = StepResetInstalldir
    /\ cfg_version' = StepResetVersion
    /\ last' = Finished("return", StepResetVersion, StepResetInstalldir)
    /\ stack' = Pop
    /\ UNCHANGED <<inp, pc, err, branch, mpi_version, mpi_prefix, mpi_envvars, mpi_c_compiler,
                   c_compiler_version, orig_version, orig_installdir, guard, req_guess, extra>>

\* the generic module step raises, or lets an exception of a nested call through:
\* nothing after the delegation runs
GenericStepRaises ==
    /\ stack # <<>> /\ Top.op = "step"
    /\ err' = IF Unwinding THEN err ELSE EasyBuildError("generic make_module_step failed", <<>>)
    /\ last' = Finished("raise", cfg_version, installdir)
    /\ stack' = Pop
    /\ UNCHANGED <<inp, pc, branch, cfg_version, installdir, mpi_version, mpi_prefix,
                   mpi_envvars, mpi_c_compiler, c_compiler_version, orig_version,
                   orig_installdir, guard, req_guess, extra>>

-----------------------------------------------------------------------------
(* make_module_extend_modpath *)

\* variant: the version is reset to the requested one
ModpathResetVersion_Requested == orig_version

\* the version set while the generic generator runs, and the one set after it
ModpathVersion == orig_version
ModpathResetVersion == mpi_version

\* the call up to the delegation, from the orchestrator or from the generic module step
MakeModuleExtendModpath ==
    /\ pc = "idle"
    /\ ~Unwinding
    /\ IF stack = <<>> THEN TRUE ELSE Top.op = "step"
    /\ err' = NoErr
    /\ stack' = Append(stack, Frame("modpath"))
    /\ cfg_version' = ModpathVersion
    /\ UNCHANGED <<inp, pc, branch, installdir, mpi_version, mpi_prefix, mpi_envvars,
                   mpi_c_compiler, c_compiler_version, orig_version, orig_installdir,
                   last, guard, req_guess, extra>>

GenericModpathReturns ==
    /\ stack # <<>> /\ Top.op = "modpath"
    /\ cfg_version' = ModpathResetVersion
    /\ last' = Finished("return", ModpathResetVersion, installdir)
    /\ stack' = Pop
    /\ UNCHANGED <<inp, pc, err, branch, installdir, mpi_version, mpi_prefix, mpi_envvars,
                   mpi_c_compiler, c_compiler_version, orig_version, orig_installdir,
                   guard, req_guess, extra>>

\* the generic generator raises: the reset does not run
GenericModpathRaises ==
    /\ stack # <<>> /\ Top.op = "modpath"
    /\ err' = EasyBuildError("generic make_module_extend_modpath failed", <<>>)
    /\ last' = Finished("raise", cfg_version, installdir)
    /\ stack' = Pop
    /\ UNCHANGED <<inp, pc, branch, cfg_version, installdir, mpi_version, mpi_prefix,
                   mpi_envvars, mpi_c_compiler, c_compiler_version, orig_version,
                   orig_installdir, guard, req_guess, extra>>

-----------------------------------------------------------------------------
(* The surroundings an adapter can be constructed in *)

\* easyconfig names
Names ==
    {<<"O", "p", "e", "n", "M", "P", "I">>, OPENMPI, IMPI, <<"I", "M", "P", "I">>,
     <<"M", "P", "I", "C", "H">>}

V_OMPI == <<"4.0.1">>
V_IMPI == <<"2018.1.163">>
Versions == {SYSTEM, V_OMPI, V_IMPI}

\* lines ompi_info can print
LineCands ==
    {<<SP, "Open", SP, "MPI", ":", SP, "4.0.1">>,
     <<"Open", SP, "MPI", ":", SP, "1.10.2">>,
     <<SP, SP, "Prefix", ":", SP, "/opt", "/ompi">>,
     <<SP, "C", SP, "compiler", ":", SP, "gcc">>,
     <<SP, "C", SP, "compiler", ":", SP, "icc">>,
     <<SP, "C", SP, "compiler", SP, "absolute", ":", SP, "/usr/bin/gcc">>,
     <<>>}

\* the text of a sequence of lines
RECURSIVE JoinLines(_)
JoinLines(ls) ==
    IF ls = <<>> THEN <<>>
    ELSE IF Len(ls) = 1 THEN ls[1]
    ELSE ls[1] \o <<NL>> \o JoinLines(Tail(ls))

Texts == {JoinLines(ls) : ls \in UNION {[1..n -> LineCands] : n \in 0..MaxLines}}

GoodText ==
    JoinLines(<<
        <<SP, "Open", SP, "MPI", ":", SP, "4.0.1">>,
        <<SP, SP, "Prefix", ":", SP, "/opt", "/ompi">>,
        <<SP, "C", SP, "compiler", ":", SP, "gcc">>,
        <<SP, "C", SP, "compiler", SP, "absolute", ":", SP, "/usr/bin/gcc">> >>)

\* contents of the mpiicc script
Scripts ==
    {<<"prefix=", "/opt/intel/", Marker, "2018.1.163", LinuxMpi, NL, "exec">>,
     <<"prefix=", "/opt/intel", NL, "exec">>,
     <<Marker, "2018.1.163", NL, LinuxMpi>>,
     <<Marker, LinuxMpi>>}

\* environment variable names and values
EnvNames ==
    {<<"O", "M", "P", "I", "_", "C", "C">>,
     <<"X", "_", "O", "M", "P", "I", "_", "C", "C">>,
     I_MPI_ROOT,
     <<"M", "P", "I", "C", "H", "_", "C", "C">>,
     <<"M", "P", "I", "_", "P", "R", "O", "F", "I", "L", "E">>,
     <<"M", "P", "I", "_", "X">>,
     <<"X", "_", "P", "R", "O", "F", "I", "L", "E">>,
     <<"P", "A", "T", "H">>}
EnvValues == {<<"/opt", "/impi">>, <<>>}

Environs ==
    UNION {[ks -> EnvValues] : ks \in {k \in SUBSET EnvNames : Cardinality(k) <= MaxEnv}}

RealMpiicc == <<"/opt", "/intel", "/impi", "/intel64", "/bin", "/mpiicc">>
RealMpicc == <<"/opt", "/ompi", "/bin", "/mpicc">>
AllPaths == {<<"/opt", "/ompi">>, <<"/opt", "/impi">>, <<"/opt", "/intel", "/impi">>}

Base ==
    [name |-> OPENMPI, version |-> SYSTEM, installdir |-> <<"/eb", "/software">>,
     which |-> [w \in {"mpicc", "mpiicc"} |-> <<"/usr", "/bin", "/" \o w>>],
     realpath |-> [w \in {"mpicc", "mpiicc"} |-> IF w = "mpicc" THEN RealMpicc ELSE RealMpiicc],
     ompi_info |-> GoodText,
     mpiicc |-> <<"prefix=", "/opt/intel/", Marker, "2018.1.163", LinuxMpi, NL, "exec">>,
     compile_info |-> <<"gcc", SP, "-I/opt/intel/include">>,
     environ |-> [k \in {I_MPI_ROOT} |-> <<"/opt", "/impi">>],
     exists |-> AllPaths,
     cc_version |-> <<"4.8.2">>,
     tc_cc |-> GCC, tc_version |-> <<"4.8.2">>,
     base_extra |-> << <<"base">> >>]

\* constructions: every name and requested version, wrapper and prefix present or not
ConstructInputs ==
    {[Base EXCEPT !.name = n, !.version = v, !.which = w, !.exists = x, !.mpiicc = s, !.environ = e] :
        n \in Names, v \in Versions,
        w \in {Base.which, [k \in {"mpicc", "mpiicc"} |-> None]},
        x \in {AllPaths, {}},
        s \in Scripts,
        e \in {Base.environ, [k \in {I_MPI_ROOT} |-> <<>>], [k \in {} |-> <<>>]}}

\* toolchains: dummy or not, with the versions the modules tool can report (None: not loaded)
ToolchainInputs ==
    {[Base EXCEPT !.name = n, !.version = v, !.tc_cc = c, !.tc_version = t,
                  !.compile_info = ci, !.cc_version = cv] :
        n \in {OPENMPI, IMPI}, v \in {SYSTEM, V_OMPI},
        c \in {DUMMYCC, GCC, <<"icc">>},
        t \in {<<"4.8.2">>, <<"5.4.0">>, None},
        ci \in {Base.compile_info, <<"icc">>},
        cv \in {<<"4.8.2">>, <<"5.4.0">>}}

\* outputs of ompi_info
TextInputs == {[Base EXCEPT !.ompi_info = t] : t \in Texts}

\* environments
EnvInputs == {[Base EXCEPT !.name = n, !.environ = e] : n \in {OPENMPI, IMPI}, e \in Environs}

Inputs == ConstructInputs \cup ToolchainInputs \cup TextInputs \cup EnvInputs

Init ==
    /\ inp \in Inputs
    /\ pc = "new"
    /\ err = NoErr
    /\ branch = "none"
    /\ cfg_version = inp.version
    /\ installdir = inp.installdir
    /\ mpi_version = None
    /\ mpi_prefix = None
    /\ mpi_envvars = <<>>
    /\ mpi_c_compiler = None
    /\ c_compiler_version = None
    /\ orig_version = None
    /\ orig_installdir = None
    /\ stack = <<>>
    /\ last = NoCall
    /\ guard = NoGuard
    /\ req_guess = [called |-> FALSE, value |-> {}]
    /\ extra = [called |-> FALSE, txt |-> <<>>, envvars_before |-> <<>>]

Next ==
    \/ Construct
    \/ MakeModuleReqGuess
    \/ MakeModuleExtra
    \/ MakeModuleStep
    \/ GenericStepReturns
    \/ GenericStepRaises
    \/ MakeModuleExtendModpath
    \/ GenericModpathReturns
    \/ GenericModpathRaises

Spec == Init /\ [][Next]_vars

-----------------------------------------------------------------------------
(* Properties *)

\* the items of self.mpi_envvars
Items == Range(mpi_envvars)

\* the lines of a text
RECURSIVE SplitLines(_)
SplitLines(txt) ==
    LET nls == {q \in 1..Len(txt) : txt[q] = NL}
    IN  IF nls = {} THEN <<txt>>
        ELSE <<SubSeq(txt, 1, Min(nls) - 1)>> \o SplitLines(SubSeq(txt, Min(nls) + 1, Len(txt)))

\* the indents j >= 1 with which a line reads <j blanks>label: <value>
Indents(line, label) ==
    {j \in 1..Len(line) :
        /\ \A n \in 1..j : line[n] = SP
        /\ startswith(SubSeq(line, j + 1, Len(line)), label \o <<":", SP>>)}

\* lines of the text of that form
LinesWith(label, txt) ==
    {n \in DOMAIN SplitLines(txt) : Indents(SplitLines(txt)[n], label) # {}}

\* the value of the first such line
FirstLineValue(label, txt) ==
    LET line == SplitLines(txt)[Min(LinesWith(label, txt))]
        j == Min(Indents(line, label))
    IN  SubSeq(line, j + Len(label) + 3, Len(line))

Labels == << <<"Open", SP, "MPI">>, <<"Prefix">>, <<"C", SP, "compiler">> >>

\* C1: make_module_step leaves the configuration's version and the install directory
\* as they were when it was called, on every exit path.
C1_StepRoundTrip ==
    last.op = "step" =>
        /\ last.post_version = last.pre_version
        /\ last.post_installdir = last.pre_installdir

\* C2: make_module_extend_modpath leaves the configuration's version and the install
\* directory as they were when it was called, standalone or nested, returning or raising.
C2_ModpathRoundTrip ==
    last.op = "modpath" =>
        /\ last.post_version = last.pre_version
        /\ last.post_installdir = last.pre_installdir

\* C3: when wrapper lookup, metadata extraction and the prefix check pass, construction
\* succeeds exactly for the requested version "system" or the derived version, fails with
\* the version error otherwise, and keeps the requested version as given for restoring.
C3_VersionValidation ==
    (pc # "new" /\ Detect(inp).ok /\ Detect(inp).mpi_prefix \in inp.exists) =>
        /\ (pc = "idle") <=> (inp.version = SYSTEM \/ inp.version = Detect(inp).mpi_version)
        /\ pc = "idle" => orig_version = inp.version /\ mpi_version = Detect(inp).mpi_version
        /\ pc = "failed" =>
              /\ err.kind = "EasyBuildError"
              /\ err.msg = "Specified version does not match version reported by MPI"

C3_Witness ==
    /\ pc = "idle"
    /\ inp.version # SYSTEM
    /\ orig_version = inp.version
    /\ branch = "impi"

\* C4: the generic module step is delegated to exactly when the toolchain's compiler
\* (name, version) equals the one found underneath MPI, the dummy toolchain counting as
\* gcc at the version derived at construction without the toolchain version being queried;
\* a mismatch raises before the version or the install directory is overwritten.
C4_CompilerGuard ==
    guard.seen =>
        LET effective == IF inp.tc_cc = DUMMYCC THEN <<GCC, inp.cc_version>>
                         ELSE <<inp.tc_cc, inp.tc_version>>
        IN  /\ guard.delegated <=> (effective = <<mpi_c_compiler, c_compiler_version>>)
            /\ guard.queried <=> (inp.tc_cc # DUMMYCC)
            /\ ~guard.delegated =>
                  /\ guard.err.kind = "EasyBuildError"
                  /\ guard.err.msg = "C compiler for toolchain and underneath MPI do not match"
                  /\ guard.post_version = guard.pre_version
                  /\ guard.post_installdir = guard.pre_installdir

C4_Witness ==
    /\ guard.seen
    /\ ~guard.delegated
    /\ inp.tc_cc = mpi_c_compiler
    /\ inp.tc_version # c_compiler_version

\* C5: make_module_req_guess returns the Intel MPI table for every adapter constructed
\* through the Intel MPI branch and the empty mapping for the OpenMPI branch.
C5_ReqGuessFollowsBranch ==
    req_guess.called =>
        /\ branch = "impi" => req_guess.value = ImpiReqGuess
        /\ branch = "openmpi" => req_guess.value = {}

\* C6 as stated: the recorded mapping holds a variable of the environment, with its value,
\* exactly when its name starts with "OMPI_" (OpenMPI) or with one of the Intel MPI
\* prefixes "I_MPI_", "MPICH_", "MPI" (Intel MPI).
C6_PrefixFilter ==
    pc = "idle" =>
        /\ \A item \in Items : item[1] \in DOMAIN inp.environ /\ item[2] = inp.environ[item[1]]
        /\ \A k \in DOMAIN inp.environ :
              (\E item \in Items : item[1] = k) <=>
                  IF branch = "openmpi" THEN startswith(k, OMPI_)
                  ELSE \/ startswith(k, I_MPI_)
                       \/ startswith(k, MPICH_)
                       \/ startswith(k, MPI)

\* C6 as amended: for Intel MPI the third family is the names that start with "MPI" and
\* end with "PROFILE"; the mapping holds a variable, with its value, exactly when its name
\* starts with "OMPI_" (OpenMPI), or starts with "I_MPI_" or "MPICH_" or starts with "MPI"
\* and ends with "PROFILE" (Intel MPI).
C6_EnvFilter ==
    pc = "idle" =>
        /\ \A item \in Items : item[1] \in DOMAIN inp.environ /\ item[2] = inp.environ[item[1]]
        /\ \A k \in DOMAIN inp.environ :
              (\E item \in Items : item[1] = k) <=>
                  IF branch = "openmpi" THEN startswith(k, OMPI_)
                  ELSE \/ startswith(k, I_MPI_)
                       \/ startswith(k, MPICH_)
                       \/ (startswith(k, MPI) /\ endswith(k, PROFILE))

C6_Witness ==
    /\ pc = "idle"
    /\ branch = "impi"
    /\ \E k \in DOMAIN inp.environ :
          startswith(k, MPI) /\ ~endswith(k, PROFILE) /\ ~startswith(k, MPICH_)
          /\ \A item \in Items : item[1] # k
    /\ \E item \in Items : startswith(item[1], MPI) /\ endswith(item[1], PROFILE)

\* C7: seen line by line, each OpenMPI setting is the value of the first line that reads
\* <one or more blanks>label: <value>, and construction fails with the extraction error
\* naming the first of "Open MPI", "Prefix", "C compiler" that no line gives.
C7_LineExtraction ==
    (pc # "new" /\ lower(inp.name) = OPENMPI /\ inp.which["mpicc"] # None) =>
        LET absent == {n \in 1..3 : LinesWith(Labels[n], inp.ompi_info) = {}}
        IN  IF absent # {}
            THEN /\ pc = "failed"
                 /\ err = EasyBuildError("Failed to extract OpenMPI setting", Labels[Min(absent)])
            ELSE /\ err.msg # "Failed to extract OpenMPI setting"
                 /\ pc = "idle" =>
                       /\ mpi_version = FirstLineValue(Labels[1], inp.ompi_info)
                       /\ mpi_prefix = FirstLineValue(Labels[2], inp.ompi_info)
                       /\ mpi_c_compiler = FirstLineValue(Labels[3], inp.ompi_info)

\* C8: when the mpiicc script holds no version between the marker and "/linux/mpi",
\* construction fails with the EasyBuildError "No version found for system Intel MPI".
C8_NoVersionIsEasyBuildError ==
    (pc # "new" /\ lower(inp.name) = IMPI /\ inp.which["mpiicc"] # None
         /\ ~ImpiSearch(inp.mpiicc).matched) =>
        /\ pc = "failed"
        /\ err = EasyBuildError("No version found for system Intel MPI", <<>>)

\* C9: make_module_extra returns the generic text followed by exactly one set_environment
\* statement per item of the recorded mapping, in ascending order of the variable names,
\* whatever the order of the items in the mapping, and leaves the mapping as it was.
C9_ExtraSorted ==
    extra.called =>
        LET b == Len(inp.base_extra)
            n == Len(mpi_envvars)
        IN  /\ Len(extra.txt) = b + n
            /\ SubSeq(extra.txt, 1, b) = inp.base_extra
            /\ \A item \in Items :
                  \E m \in 1..n : extra.txt[b + m] = <<"setenv", item[1], item[2]>>
            /\ \A l, m \in 1..n : l < m => StrLess(extra.txt[b + l][2], extra.txt[b + m][2])
            /\ mpi_envvars = extra.envvars_before

C9_Witness ==
    /\ extra.called
    /\ Len(mpi_envvars) >= 2
    /\ StrLess(mpi_envvars[2][1], mpi_envvars[1][1])

\* C10: while the generic module-path generator runs the configuration's version is the
\* requested one; while the generic module step runs, from its start and again after a
\* nested make_module_extend_modpath has returned, the version is the derived MPI version,
\* and the install directory is the derived prefix throughout.
C10_DelegatesSee ==
    stack # <<>> =>
        /\ Top.op = "modpath" => cfg_version = inp.version
        /\ (Top.op = "step" /\ ~Unwinding) => cfg_version = mpi_version /\ installdir = mpi_prefix
        /\ stack[1].op = "step" => installdir = mpi_prefix

C10_Witness ==
    /\ stack # <<>>
    /\ Top.op = "step"
    /\ ~Unwinding
    /\ last.op = "modpath"
    /\ last.how = "return"
    /\ inp.version = SYSTEM

====
